---- MODULE Spec2Model ----
(***************************************************************************)
(* Model of the estimate webhook relay: the callback receiver              *)
(* (api/estimate-callback.ts), its in-memory result store with TTL, the    *)
(* periodic cleanup timer, and the two polling endpoints                   *)
(* (api/estimate-status/[callbackId].ts and api/get-result.ts).            *)
(*                                                                         *)
(* Time is Date.now() in milliseconds, counted from the moment the module  *)
(* is loaded.  Request fields are JavaScript values, modelled as tagged    *)
(* records so that typeof and truthiness are computed as JavaScript does.  *)
(***************************************************************************)
EXTENDS Integers, FiniteSets, Sequences, TLC

VARIABLES
    resultStore,  \* the Map<string, EstimateResult>; null where the key is absent
    now,          \* Date.now()
    last,         \* the operation that ran last, with its request and its answer
    written,      \* history: per id, the result object the latest accepted callback built
    overwrote,    \* history: per id, existingResult of the latest accepted callback
    nWrites,      \* number of callbacks accepted so far
    lazyStore     \* history: the Map of the same run with the cleanup timer never firing

vars == <<resultStore, now, last, written, overwrote, nWrites, lazyStore>>

(***************************************************************************)
(* Bounds of the model                                                     *)
(***************************************************************************)
\* 1 ms clock steps are taken only this far past a multiple of the TTL
MaxJitter == 1
\* the clock stops after this many TTL-long steps
MaxPeriods == 1
\* callbacks accepted in the timed specifications
MaxWrites == 2
\* callbacks accepted in the field specification
MaxFieldWrites == 1

\* correlation ids in use
Ids == {"k1", "k2"}
FieldIds == {"k1"}

(***************************************************************************)
(* JavaScript values                                                       *)
(***************************************************************************)
Undefined == [t |-> "undefined", n |-> 0, s |-> ""]
Num(x) == [t |-> "number", n |-> x, s |-> ""]
Str(x) == [t |-> "string", n |-> 0, s |-> x]
\* an array, as a repeated query parameter gives
Arr == [t |-> "object", n |-> 0, s |-> ""]

typeof(v) == v.t

\* ToBoolean: undefined, 0 and "" are falsy; every object is truthy
Truthy(v) ==
    \/ v.t = "number" /\ v.n # 0
    \/ v.t = "string" /\ v.s # ""
    \/ v.t = "object"

\* a || b || c : the first truthy operand, else the last operand
Or3(a, b, c) == IF Truthy(a) THEN a ELSE IF Truthy(b) THEN b ELSE c

null == [null |-> TRUE]

(***************************************************************************)
(* Requests                                                                *)
(***************************************************************************)
NoBody(m) ==
    [method |-> m, hasBody |-> FALSE, callbackId |-> Undefined, status |-> Undefined,
     totalEstimate |-> Undefined, totalEstimateDollar |-> Undefined,
     total_estimate_ |-> Undefined, message |-> Undefined]

NoReq == NoBody("-")

Posts(ids, statuses, totals, dollars, underscores, messages) ==
    [method : {"POST"}, hasBody : {TRUE}, callbackId : ids, status : statuses,
     totalEstimate : totals, totalEstimateDollar : dollars,
     total_estimate_ : underscores, message : messages]

\* every combination of status and estimate fields the handler distinguishes
EstimateReqs ==
    Posts({Str(k) : k \in FieldIds},
          {Undefined, Str(""), Str("success"), Str("error"), Str("pending")},
          {Undefined, Num(0), Num(1500), Num(-5), Num(10000001), Str("1500")},
          {Undefined, Num(2200)},
          {Undefined, Num(3300)},
          {Undefined})

\* every combination of callbackId and message the handler distinguishes
EnvelopeReqs ==
    Posts({Undefined, Str(""), Num(7)} \cup {Str(k) : k \in FieldIds},
          {Undefined, Str("error")},
          {Undefined, Num(1500)},
          {Undefined},
          {Undefined},
          {Undefined, Str(""), Str("done")})

FieldReqs ==
    EstimateReqs \cup EnvelopeReqs
    \cup {NoBody("POST"), NoBody("OPTIONS"), NoBody("GET")}

\* the requests of the timed specifications: two ids, few payloads
TimedReqs ==
    {r \in Posts({Undefined} \cup {Str(k) : k \in Ids},
                 {Undefined, Str("error")},
                 {Undefined, Num(1500)},
                 {Undefined},
                 {Undefined},
                 {Undefined}) :
        r.status = Undefined \/ r.totalEstimate = Undefined}
    \cup {NoBody("POST"), NoBody("OPTIONS"), NoBody("GET")}

\* a poll: the method and the callbackId query parameter
PollReqs(ids) ==
    [method : {"GET"}, callbackId : {Undefined, Str(""), Arr} \cup {Str(k) : k \in ids}]
    \cup {[method |-> "OPTIONS", callbackId |-> Undefined],
          [method |-> "POST", callbackId |-> Undefined]}

(***************************************************************************)
(* The result store                                                        *)
(***************************************************************************)
RESULT_TTL == 5 * 60 * 1000

\* (mutant) the timer removes an entry already when its age reaches the TTL
sweepExpiredAtTtl(result, t) == t - result.receivedAt >= RESULT_TTL

\* (mutant) the sweep's test with the operands of the age swapped
sweepExpiredSwapped(data, t) == data.receivedAt - t > RESULT_TTL

\* (mutant) the timer's period taken for the age limit
sweepExpiredByInterval(result, t) == t - result.receivedAt > 60 * 1000

\* the cleanup timer's test of one entry
sweepExpired(result, t) == t - result.receivedAt > RESULT_TTL

\* (mutant) a run that stops at the first entry it removes
cleanupFirstOnly(store, t) ==
    LET old == {id \in DOMAIN store : store[id] # null /\ sweepExpired(store[id], t)}
    IN  IF old = {} THEN store
        ELSE [store EXCEPT ![CHOOSE id \in old : TRUE] = null]

\* one run of the cleanup timer's callback
cleanup(store, t) ==
    [id \in DOMAIN store |->
        IF store[id] # null /\ sweepExpired(store[id], t) THEN null ELSE store[id]]

\* (mutant) the TTL taken for seconds where Date.now() counts milliseconds
getExpiredSeconds(result, t) == t - result.receivedAt > RESULT_TTL * 1000

\* (mutant) a read that takes an entry for expired already when its age reaches the TTL
getExpiredAtTtl(result, t) == t - result.receivedAt >= RESULT_TTL

\* getResult's test of the entry it found
getExpired(result, t) == t - result.receivedAt > RESULT_TTL

\* (mutant) a read that refreshes receivedAt in what it returns
getResultReturnRefreshed(store, callbackId, t) ==
    IF store[callbackId] = null THEN null
    ELSE IF getExpired(store[callbackId], t) THEN null
    ELSE [store[callbackId] EXCEPT !.receivedAt = t]

\* (mutant) a miss that falls back to any entry the store holds
getResultReturnAnyKey(store, callbackId, t) ==
    IF store[callbackId] = null
    THEN IF \E id \in DOMAIN store : store[id] # null
         THEN store[CHOOSE id \in DOMAIN store : store[id] # null]
         ELSE null
    ELSE IF getExpired(store[callbackId], t) THEN null
    ELSE store[callbackId]

\* getResult: what it returns
getResultReturn(store, callbackId, t) ==
    IF store[callbackId] = null THEN null
    ELSE IF getExpired(store[callbackId], t) THEN null
    ELSE store[callbackId]

\* (mutant) a read that reports an expired entry absent and leaves it in the store
getResultStoreKept(store, callbackId, t) == store

\* (mutant) a read that slides the expiry: a live entry gets the time of the read
getResultStoreTouch(store, callbackId, t) ==
    IF store[callbackId] = null THEN store
    ELSE IF getExpired(store[callbackId], t) THEN [store EXCEPT ![callbackId] = null]
    ELSE [store EXCEPT ![callbackId].receivedAt = t]

\* getResult: the store it leaves
getResultStore(store, callbackId, t) ==
    IF store[callbackId] # null /\ getExpired(store[callbackId], t)
    THEN [store EXCEPT ![callbackId] = null]
    ELSE store

\* (mutant) resultStore.clear() where one key is to be deleted
clearResultStoreAll(store, callbackId) == [id \in DOMAIN store |-> null]

\* clearResult: resultStore.delete(callbackId)
clearResultStore(store, callbackId) == [store EXCEPT ![callbackId] = null]

(***************************************************************************)
(* The callback receiver                                                   *)
(***************************************************************************)
\* req.body.totalEstimate || req.body['Total Estimate $'] || req.body['total_estimate_']
coalesceEstimate(req) ==
    Or3(req.totalEstimate, req.totalEstimateDollar, req.total_estimate_)

\* !callbackId || typeof callbackId !== 'string' is false
callbackIdOk(v) == Truthy(v) /\ typeof(v) = "string"

\* (mutant) status || 'success': any non-empty status is kept
validStatusAnyTruthy(status) == IF Truthy(status) THEN status.s ELSE "success"

\* status && ['success', 'error'].includes(status) ? status : 'success'
validStatus(status) ==
    IF Truthy(status) /\ status \in {Str("success"), Str("error")}
    THEN status.s ELSE "success"

\* (mutant) the handler without the check of totalEstimate
handlerCodeNoEstimateCheck(req) ==
    IF req.method = "OPTIONS" THEN 200
    ELSE IF req.method # "POST" THEN 405
    ELSE IF ~req.hasBody THEN 500
    ELSE IF ~callbackIdOk(req.callbackId) THEN 400
    ELSE 200

\* (mutant) the estimate checked for presence only, not for its type
handlerCodePresenceCheck(req) ==
    IF req.method = "OPTIONS" THEN 200
    ELSE IF req.method # "POST" THEN 405
    ELSE IF ~req.hasBody THEN 500
    ELSE IF ~callbackIdOk(req.callbackId) THEN 400
    ELSE IF validStatus(req.status) = "success"
            /\ coalesceEstimate(req) = Undefined THEN 400
    ELSE 200

\* (mutant) the callbackId checked after the estimate, so that a missing estimate
\* and an error status decide the answer first
handlerCodeIdLast(req) ==
    IF req.method = "OPTIONS" THEN 200
    ELSE IF req.method # "POST" THEN 405
    ELSE IF ~req.hasBody THEN 500
    ELSE IF validStatus(req.status) = "error" THEN 200
    ELSE IF typeof(coalesceEstimate(req)) # "number" THEN 400
    ELSE IF ~callbackIdOk(req.callbackId) THEN 400
    ELSE 200

\* (mutant) a number demanded of the estimate whatever the status
handlerCodeAlwaysNumber(req) ==
    IF req.method = "OPTIONS" THEN 200
    ELSE IF req.method # "POST" THEN 405
    ELSE IF ~req.hasBody THEN 500
    ELSE IF ~callbackIdOk(req.callbackId) THEN 400
    ELSE IF typeof(coalesceEstimate(req)) # "number" THEN 400
    ELSE 200

\* (mutant) the range of the estimate enforced, not only logged
handlerCodeRangeEnforced(req) ==
    IF req.method = "OPTIONS" THEN 200
    ELSE IF req.method # "POST" THEN 405
    ELSE IF ~req.hasBody THEN 500
    ELSE IF ~callbackIdOk(req.callbackId) THEN 400
    ELSE IF validStatus(req.status) = "success"
            /\ typeof(coalesceEstimate(req)) # "number" THEN 400
    ELSE IF validStatus(req.status) = "success"
            /\ (coalesceEstimate(req).n < 0 \/ coalesceEstimate(req).n > 10000000) THEN 400
    ELSE 200

\* the status code the callback receiver answers with
handlerCode(req) ==
    IF req.method = "OPTIONS" THEN 200
    ELSE IF req.method # "POST" THEN 405
    ELSE IF ~req.hasBody THEN 500
    ELSE IF ~callbackIdOk(req.callbackId) THEN 400
    ELSE IF validStatus(req.status) = "success"
            /\ typeof(coalesceEstimate(req)) # "number" THEN 400
    ELSE 200

\* (mutant) the entry written as soon as the callbackId is valid, before the
\* estimate is checked
handlerStoresBeforeChecks(req) ==
    req.method = "POST" /\ req.hasBody /\ callbackIdOk(req.callbackId)

\* the request passes every check and reaches resultStore.set
handlerStores(req) == req.method = "POST" /\ handlerCode(req) = 200

\* the result object the handler builds
buildResult(req, t) ==
    [status |-> validStatus(req.status),
     receivedAt |-> t,
     totalEstimate |-> coalesceEstimate(req),
     message |-> IF Truthy(req.message) THEN req.message ELSE Undefined]

\* (mutant) the new result merged into the existing entry, Object.assign style
storeResultMerged(store, callbackId, result) ==
    IF store[callbackId] = null THEN [store EXCEPT ![callbackId] = result]
    ELSE [store EXCEPT ![callbackId] =
            [result EXCEPT
                !.totalEstimate = IF @ = Undefined THEN store[callbackId].totalEstimate ELSE @,
                !.message = IF @ = Undefined THEN store[callbackId].message ELSE @]]

\* (mutant) an overwrite that assigns status and receivedAt to the existing object
\* and leaves its other fields
storeResultInPlace(store, callbackId, result) ==
    IF store[callbackId] = null THEN [store EXCEPT ![callbackId] = result]
    ELSE [store EXCEPT ![callbackId] =
            [@ EXCEPT !.status = result.status, !.receivedAt = result.receivedAt]]

\* (mutant) an overwrite that keeps the receivedAt of the entry it replaces
storeResultKeepClock(store, callbackId, result) ==
    IF store[callbackId] = null THEN [store EXCEPT ![callbackId] = result]
    ELSE [store EXCEPT ![callbackId] =
            [result EXCEPT !.receivedAt = store[callbackId].receivedAt]]

\* resultStore.set(callbackId, result)
storeResult(store, callbackId, result) == [store EXCEPT ![callbackId] = result]

(***************************************************************************)
(* The other callback receivers of the repository                          *)
(*                                                                         *)
(* api/estmate-callback.ts and unnamed/part_001 keep a Map of their own;   *)
(* unnamed/part_000 writes to the external cache with kv.set.  The         *)
(* requests of the model carry neither squares nor Squares, so the squares *)
(* these receivers read is undefined.                                      *)
(***************************************************************************)
RESULT_TTL_estmate == 5 * 60 * 1000
RESULT_TTL_part001 == 5 * 60 * 1000
\* kv.set(..., { ex: 300 }): the expiry in seconds
kvEx == 300

\* api/estmate-callback.ts: the status code
estmateHandlerCode(req) ==
    IF req.method = "OPTIONS" THEN 200
    ELSE IF req.method # "POST" THEN 405
    ELSE IF ~req.hasBody THEN 500
    ELSE IF ~callbackIdOk(req.callbackId) THEN 400
    ELSE IF validStatus(req.status) = "success"
            /\ typeof(coalesceEstimate(req)) # "number" THEN 400
    ELSE 200

\* api/estmate-callback.ts: the result object and the key it is set under
estmateResult(req, t) ==
    [key |-> req.callbackId.s,
     value |-> [status |-> validStatus(req.status),
                receivedAt |-> t,
                totalEstimate |-> coalesceEstimate(req),
                squares |-> Undefined,
                message |-> IF Truthy(req.message) THEN req.message ELSE Undefined],
     lifetime |-> RESULT_TTL_estmate]

\* unnamed/part_001: the status code
part001HandlerCode(req) ==
    IF req.method = "OPTIONS" THEN 200
    ELSE IF req.method # "POST" THEN 405
    ELSE IF ~req.hasBody THEN 500
    ELSE IF ~callbackIdOk(req.callbackId) THEN 400
    ELSE IF validStatus(req.status) = "success"
            /\ typeof(coalesceEstimate(req)) # "number" THEN 400
    ELSE 200

\* unnamed/part_001: the result object and the key it is set under
part001Result(req, t) ==
    [key |-> req.callbackId.s,
     value |-> [status |-> validStatus(req.status),
                receivedAt |-> t,
                totalEstimate |-> coalesceEstimate(req),
                message |-> IF Truthy(req.message) THEN req.message ELSE Undefined],
     lifetime |-> RESULT_TTL_part001]

\* (mutant) a cache-backed receiver that rejects a status it does not know
kvHandlerCodeStrictStatus(req, kvUp) ==
    IF req.method = "OPTIONS" THEN 200
    ELSE IF req.method # "POST" THEN 405
    ELSE IF ~req.hasBody THEN 500
    ELSE IF ~callbackIdOk(req.callbackId) THEN 400
    ELSE IF Truthy(req.status) /\ req.status \notin {Str("success"), Str("error")} THEN 400
    ELSE IF validStatus(req.status) = "success"
            /\ typeof(coalesceEstimate(req)) # "number" THEN 400
    ELSE IF ~kvUp THEN 500
    ELSE 200

\* unnamed/part_000: the status code; kvUp: await kv.set resolves (else it
\* throws and the catch block answers 500)
kvHandlerCode(req, kvUp) ==
    IF req.method = "OPTIONS" THEN 200
    ELSE IF req.method # "POST" THEN 405
    ELSE IF ~req.hasBody THEN 500
    ELSE IF ~callbackIdOk(req.callbackId) THEN 400
    ELSE IF validStatus(req.status) = "success"
            /\ typeof(coalesceEstimate(req)) # "number" THEN 400
    ELSE IF ~kvUp THEN 500
    ELSE 200

\* unnamed/part_000: kv.set(`estimate:${callbackId}`, result, { ex: 300 }), the
\* lifetime in milliseconds
kvSet(req, t) ==
    [key |-> <<"estimate:", req.callbackId.s>>,
     value |-> [status |-> validStatus(req.status),
                receivedAt |-> t,
                totalEstimate |-> coalesceEstimate(req),
                squares |-> Undefined,
                message |-> IF Truthy(req.message) THEN req.message ELSE Undefined],
     lifetime |-> kvEx * 1000]

(***************************************************************************)
(* The polling endpoints                                                   *)
(***************************************************************************)
\* (mutant) a poller that checks the callbackId before the method
pollGateIdFirst(q) ==
    IF ~callbackIdOk(q.callbackId) THEN 400
    ELSE IF q.method = "OPTIONS" THEN 200
    ELSE IF q.method # "GET" THEN 405
    ELSE 0

\* the status code of either poller before it looks at the store; 0: it goes on
pollGate(q) ==
    IF q.method = "OPTIONS" THEN 200
    ELSE IF q.method # "GET" THEN 405
    ELSE IF ~callbackIdOk(q.callbackId) THEN 400
    ELSE 0

\* api/estimate-status/[callbackId].ts: always 200, status pending or completed
statusCode(result) == 200
\* (mutant) completed reported for successful estimates only
statusReplySuccessOnly(result) ==
    IF result = null \/ result.status # "success" THEN "pending" ELSE "completed"

statusReply(result) == IF result = null THEN "pending" ELSE "completed"

\* api/get-result.ts: 404 when there is no result, else 200 with the result
getResultCode(result) == IF result = null THEN 404 ELSE 200
getResultReply(result) == IF result = null THEN "error" ELSE "result"

(***************************************************************************)
(* Initial state                                                           *)
(***************************************************************************)
Answer(op, req, query, key, code, result, reply, evicted) ==
    [op |-> op, req |-> req, query |-> query, key |-> key, code |-> code,
     result |-> result, reply |-> reply, evicted |-> evicted]

Quiet(op) == Answer(op, NoReq, Undefined, "", 0, null, "", FALSE)

Init ==
    /\ resultStore = [id \in Ids |-> null]
    /\ now = 0
    /\ last = Quiet("init")
    /\ written = [id \in Ids |-> null]
    /\ overwrote = [id \in Ids |-> null]
    /\ nWrites = 0
    /\ lazyStore = [id \in Ids |-> null]

(***************************************************************************)
(* Actions                                                                 *)
(***************************************************************************)
\* POST /api/estimate-callback (and any other method sent there)
Callback(reqs, cap) ==
    \E req \in reqs :
        LET code == handlerCode(req)
            id == req.callbackId.s
        IN  /\ handlerStores(req) => nWrites < cap
            /\ IF handlerStores(req)
               THEN /\ nWrites' = nWrites + 1
                    /\ resultStore' = storeResult(resultStore, id, buildResult(req, now))
                    /\ written' = [written EXCEPT ![id] = buildResult(req, now)]
                    /\ overwrote' = [overwrote EXCEPT ![id] = resultStore[id]]
                    /\ lazyStore' = storeResult(lazyStore, id, buildResult(req, now))
               ELSE UNCHANGED <<resultStore, written, overwrote, nWrites, lazyStore>>
            /\ last' = Answer("callback", req, Undefined, "", code, null,
                              IF code = 200 THEN "ok" ELSE "error", FALSE)
            /\ now' = now

\* GET /api/estimate-status/{callbackId}
StatusPoll(ids) ==
    \E q \in PollReqs(ids) :
        LET gate == pollGate(q)
            id == q.callbackId.s
            result == getResultReturn(resultStore, id, now)
        IN  /\ IF gate = 0
               THEN /\ resultStore' = getResultStore(resultStore, id, now)
                    /\ lazyStore' = getResultStore(lazyStore, id, now)
                    /\ last' = Answer("status", NoBody(q.method), q.callbackId, id,
                                      statusCode(result), result, statusReply(result),
                                      resultStore'[id] # resultStore[id])
               ELSE /\ resultStore' = resultStore
                    /\ lazyStore' = lazyStore
                    /\ last' = Answer("status", NoBody(q.method), q.callbackId, "",
                                      gate, null, "", FALSE)
            /\ UNCHANGED <<now, written, overwrote, nWrites>>

\* GET /api/get-result?callbackId=...
GetResultPoll(ids) ==
    \E q \in PollReqs(ids) :
        LET gate == pollGate(q)
            id == q.callbackId.s
            result == getResultReturn(resultStore, id, now)
        IN  /\ IF gate = 0
               THEN /\ resultStore' = getResultStore(resultStore, id, now)
                    /\ lazyStore' = getResultStore(lazyStore, id, now)
                    /\ last' = Answer("get-result", NoBody(q.method), q.callbackId, id,
                                      getResultCode(result), result, getResultReply(result),
                                      resultStore'[id] # resultStore[id])
               ELSE /\ resultStore' = resultStore
                    /\ lazyStore' = lazyStore
                    /\ last' = Answer("get-result", NoBody(q.method), q.callbackId, "",
                                      gate, null, "", FALSE)
            /\ UNCHANGED <<now, written, overwrote, nWrites>>

\* the cleanup timer fires. setInterval's phase against the requests is arbitrary,
\* so a run of the callback may fall on any clock value.
Sweep ==
    /\ resultStore' = cleanup(resultStore, now)
    /\ last' = Answer("sweep", NoReq, Undefined, "", 0, null, "",
                      resultStore' # resultStore)
    /\ UNCHANGED <<now, written, overwrote, nWrites, lazyStore>>

\* a direct call of the exported getResult
GetResult(ids) ==
    \E id \in ids :
        LET result == getResultReturn(resultStore, id, now)
        IN  /\ resultStore' = getResultStore(resultStore, id, now)
            /\ lazyStore' = getResultStore(lazyStore, id, now)
            /\ last' = Answer("getResult", NoReq, Str(id), id, 0, result, "",
                              resultStore'[id] # resultStore[id])
            /\ UNCHANGED <<now, written, overwrote, nWrites>>

\* a direct call of the exported clearResult
ClearResult(ids) ==
    \E id \in ids :
        /\ resultStore' = clearResultStore(resultStore, id)
        /\ lazyStore' = clearResultStore(lazyStore, id)
        /\ last' = Answer("clearResult", NoReq, Str(id), "", 0, null,
                          IF resultStore[id] # null THEN "true" ELSE "false", FALSE)
        /\ UNCHANGED <<now, written, overwrote, nWrites>>

\* the clock advances by 1 ms
TickMs ==
    /\ now % RESULT_TTL < MaxJitter
    /\ now' = now + 1
    /\ last' = Quiet("tick")
    /\ UNCHANGED <<resultStore, written, overwrote, nWrites, lazyStore>>

\* the clock advances by the TTL
TickTtl ==
    /\ now \div RESULT_TTL < MaxPeriods
    /\ now' = now + RESULT_TTL
    /\ last' = Quiet("tick")
    /\ UNCHANGED <<resultStore, written, overwrote, nWrites, lazyStore>>

(***************************************************************************)
(* Specifications                                                          *)
(***************************************************************************)
\* the deployed program: the three endpoints, the timer and the clock
Next ==
    \/ Callback(TimedReqs, MaxWrites)
    \/ StatusPoll(Ids)
    \/ GetResultPoll(Ids)
    \/ Sweep
    \/ TickMs
    \/ TickTtl

Spec == Init /\ [][Next]_vars

\* the store module by its exports: the handler, getResult and clearResult called
\* directly, the timer and the clock
NextApi ==
    \/ Callback(TimedReqs, MaxWrites)
    \/ GetResult(Ids)
    \/ ClearResult(Ids)
    \/ Sweep
    \/ TickMs
    \/ TickTtl

SpecApi == Init /\ [][NextApi]_vars

\* the latest reading of the modelled clock
Horizon == MaxPeriods * RESULT_TTL + MaxJitter

\* a callback that arrives while the modelled clock can still pass its expiry
CallbackEarly ==
    /\ now + RESULT_TTL < Horizon
    /\ Callback(TimedReqs, MaxWrites)

\* the deployed program with callbacks that stop arriving; the interval timer
\* fires again and again and time goes on
NextLive ==
    \/ CallbackEarly
    \/ StatusPoll(Ids)
    \/ Sweep
    \/ TickMs
    \/ TickTtl

SpecLive ==
    /\ Init
    /\ [][NextLive]_vars
    /\ WF_vars(Sweep)
    /\ WF_vars(TickMs)
    /\ WF_vars(TickTtl)

\* the callback receiver on every combination of request fields, one id
NextFields ==
    \/ Callback(FieldReqs, MaxFieldWrites)
    \/ StatusPoll(FieldIds)
    \/ GetResultPoll(FieldIds)

SpecFields == Init /\ [][NextFields]_vars

(***************************************************************************)
(* Properties                                                              *)
(***************************************************************************)
\* the last operation called getResult(k): through a poller or directly
Polled(k) == last.op \in {"status", "get-result", "getResult"} /\ last.key = k

\* the last operation was a callback that reached resultStore.set
Accepted == last.op = "callback" /\ last.req.method = "POST" /\ last.code = 200

\* the last operation was an accepted callback for id k
AcceptedFor(k) == Accepted /\ last.req.callbackId = Str(k)

\* the last operation was a POST with a body to the callback receiver
Posted == last.op = "callback" /\ last.req.method = "POST" /\ last.req.hasBody

\* age of the result the latest accepted callback for k built
Age(k) == now - written[k].receivedAt

\* the first of the three estimate fields that the body carries
FirstPresent(req) ==
    IF req.totalEstimate # Undefined THEN req.totalEstimate
    ELSE IF req.totalEstimateDollar # Undefined THEN req.totalEstimateDollar
    ELSE req.total_estimate_

\* C1: round trip. A getResult(k) made after a callback for k was accepted, with
\* no later callback for k and not later than TTL after it, returns exactly the
\* entry that callback built: same status, totalEstimate, message, receivedAt.
C1_RoundTrip ==
    \A k \in Ids :
        (Polled(k) /\ written[k] # null /\ Age(k) <= RESULT_TTL)
            => last.result = written[k]

C1_Witness ==
    \E k \in Ids :
        /\ Polled(k) /\ written[k] # null
        /\ Age(k) > 0 /\ Age(k) <= RESULT_TTL
        /\ last.result = written[k]
        /\ last.result.totalEstimate = Num(1500)

\* C2: for an id for which no callback was ever accepted, getResult returns
\* null, the status poller answers 200 pending and the get-result poller 404.
C2_NeverWrittenAbsent ==
    \A k \in Ids :
        (Polled(k) /\ written[k] = null)
            => /\ last.result = null
               /\ last.op = "status" => (last.code = 200 /\ last.reply = "pending")
               /\ last.op = "get-result" => (last.code = 404 /\ last.reply = "error")

C2_Witness ==
    \E k \in Ids :
        /\ Polled(k) /\ written[k] = null /\ last.op = "status"
        /\ last.result = null /\ last.reply = "pending"
        /\ \E j \in Ids : resultStore[j] # null

\* C3: a getResult(k) made when the age of the entry stored for k exceeds the
\* TTL returns null, whether the cleanup timer has removed the entry or the
\* read finds it still in the store.
C3_ExpiredAbsent ==
    \A k \in Ids :
        (Polled(k) /\ written[k] # null /\ Age(k) > RESULT_TTL)
            => last.result = null

C3_Witness ==
    \E k \in Ids :
        /\ Polled(k) /\ written[k] # null /\ Age(k) > RESULT_TTL
        /\ last.evicted
        /\ last.result = null

\* C4: availability window. While the age of the entry written for k is at
\* most the TTL (the boundary included), every step other than an accepted
\* callback for k or clearResult(k) leaves the entry in the store unchanged (the
\* timer and reads of any id included), and a getResult(k) returns it.
C4_AvailabilityWindow ==
    [][\A k \in Ids :
          (/\ resultStore[k] # null
           /\ now' - resultStore[k].receivedAt <= RESULT_TTL
           /\ ~AcceptedFor(k)'
           /\ ~(last'.op = "clearResult" /\ last'.query = Str(k)))
              => /\ resultStore'[k] = resultStore[k]
                 /\ Polled(k)' => last'.result = resultStore[k]]_vars

C4_Witness ==
    \E k \in Ids :
        /\ last.op = "getResult" /\ last.key = k
        /\ written[k] # null /\ Age(k) = RESULT_TTL
        /\ last.result = written[k]
        /\ resultStore[k] = written[k]

\* C5: last write wins. After a callback for k is accepted over an existing
\* entry, the store holds for k the entry built from that request alone (a
\* totalEstimate or message the request does not carry is absent, whatever the
\* entry it replaced held), and getResult(k) returns that entry or null.
C5_LastWriteWins ==
    \A k \in Ids :
        /\ (AcceptedFor(k) /\ overwrote[k] # null)
              => /\ resultStore[k].receivedAt = now
                 /\ resultStore[k].status \in {"success", "error"}
                 /\ last.req.status = Undefined => resultStore[k].status = "success"
                 /\ FirstPresent(last.req) = Undefined
                       => resultStore[k].totalEstimate = Undefined
                 /\ last.req.message = Undefined
                       => resultStore[k].message = Undefined
        /\ (Polled(k) /\ overwrote[k] # null)
              => /\ last.result \in {null, written[k]}
                 /\ Age(k) <= RESULT_TTL => last.result = written[k]

C5_Witness ==
    \E k \in Ids :
        /\ Polled(k) /\ overwrote[k] # null
        /\ overwrote[k].totalEstimate = Num(1500)
        /\ last.result # null
        /\ last.result.status = "error"
        /\ last.result.totalEstimate = Undefined

\* C6: an accepted callback for an id that has an entry resets the expiry
\* clock: the stored entry's receivedAt is the time of that callback, and
\* getResult returns the entry up to TTL after it, also when the entry it
\* replaced has expired by then.
C6_OverwriteResetsExpiry ==
    \A k \in Ids :
        /\ (AcceptedFor(k) /\ overwrote[k] # null)
              => resultStore[k].receivedAt = now
        /\ (Polled(k) /\ overwrote[k] # null /\ Age(k) <= RESULT_TTL)
              => /\ last.result # null
                 /\ last.result.receivedAt = written[k].receivedAt

C6_Witness ==
    \E k \in Ids :
        /\ Polled(k) /\ overwrote[k] # null
        /\ now - overwrote[k].receivedAt > RESULT_TTL
        /\ Age(k) <= RESULT_TTL
        /\ last.result = written[k]

\* C7: the status stored by an accepted callback is the posted status when
\* that is "success" or "error", and "success" when the status is absent,
\* empty or any other value.
C7_StoredStatus ==
    Accepted =>
        resultStore[last.req.callbackId.s].status =
            IF last.req.status = Str("error") THEN "error" ELSE "success"

C7_Witness ==
    /\ Accepted
    /\ last.req.status = Undefined
    /\ last.req.totalEstimate = Num(1500)
    /\ resultStore[last.req.callbackId.s].status = "success"

\* C8: a POST whose status is anything but "error" (success, absent or
\* unrecognized) and whose coalesced estimate is not a number is answered 400
\* and leaves the store unchanged.
C8_SuccessNeedsNumber ==
    [][(/\ Posted'
        /\ last'.req.status # Str("error")
        /\ typeof(coalesceEstimate(last'.req)) # "number")
          => (last'.code = 400 /\ resultStore' = resultStore)]_vars

C8_Witness ==
    /\ Posted
    /\ callbackIdOk(last.req.callbackId)
    /\ last.req.status = Str("success")
    /\ typeof(coalesceEstimate(last.req)) # "number"
    /\ last.code = 400
    /\ resultStore[last.req.callbackId.s] # null

\* C9: the totalEstimate of the entry an accepted callback stores is the value
\* of the first of totalEstimate, "Total Estimate $", total_estimate_ that the
\* body carries.
C9_FirstPresentStored ==
    Accepted =>
        resultStore[last.req.callbackId.s].totalEstimate = FirstPresent(last.req)

\* C10: a POST with a non-empty string callbackId whose first present estimate
\* field is a number is answered 200 and written to the store, for every
\* number, zero included.
C10_NumericAccepted ==
    (/\ Posted
     /\ callbackIdOk(last.req.callbackId)
     /\ typeof(FirstPresent(last.req)) = "number")
        => /\ last.code = 200
           /\ resultStore[last.req.callbackId.s] # null
           /\ resultStore[last.req.callbackId.s].receivedAt = now

\* C11: store invariant. Every entry in the store whose status is "success"
\* has a totalEstimate that is present and is a number.
C11_SuccessHasNumber ==
    \A k \in Ids :
        (resultStore[k] # null /\ resultStore[k].status = "success")
            => typeof(resultStore[k].totalEstimate) = "number"

C11_Witness ==
    \E k \in Ids :
        /\ resultStore[k] # null
        /\ resultStore[k].status = "success"
        /\ resultStore[k].totalEstimate = Num(2200)
        /\ Accepted /\ last.req.status = Str("pending")

\* C12: a POST with a body whose callbackId is missing, empty or not a string
\* is answered 400 whatever the other fields are, and leaves the store
\* unchanged.
C12_BadCallbackId ==
    [][(/\ Posted'
        /\ \/ last'.req.callbackId = Undefined
           \/ last'.req.callbackId = Str("")
           \/ typeof(last'.req.callbackId) # "string")
          => (last'.code = 400 /\ resultStore' = resultStore)]_vars

C12_Witness ==
    /\ Posted
    /\ last.req.callbackId = Num(7)
    /\ last.req.status = Str("error")
    /\ last.code = 400
    /\ \E k \in Ids : resultStore[k] # null

\* C13: lazy eviction. A getResult(k) that finds an entry whose age exceeds
\* the TTL deletes it: after the call the store holds no entry for k.
C13_LazyEviction ==
    [][\A k \in Ids :
          (/\ Polled(k)'
           /\ resultStore[k] # null
           /\ now - resultStore[k].receivedAt > RESULT_TTL)
              => (resultStore'[k] = null /\ last'.result = null)]_vars

C13_Witness ==
    \E k \in Ids :
        /\ Polled(k) /\ last.evicted
        /\ written[k] # null /\ Age(k) > RESULT_TTL
        /\ resultStore[k] = null
        /\ \E j \in Ids : resultStore[j] # null

\* C14: one run of the cleanup timer removes every entry whose age exceeds the
\* TTL and leaves every entry whose age is at most the TTL in the store,
\* unchanged.
C14_SweepExact ==
    [][last'.op = "sweep" =>
          \A k \in Ids :
              resultStore'[k] =
                  IF resultStore[k] # null /\ now - resultStore[k].receivedAt > RESULT_TTL
                  THEN null ELSE resultStore[k]]_vars

C14_Witness ==
    /\ last.op = "sweep" /\ last.evicted
    /\ \E k \in Ids : written[k] # null /\ Age(k) > RESULT_TTL /\ resultStore[k] = null
    /\ \E j \in Ids : resultStore[j] # null /\ now - resultStore[j].receivedAt = RESULT_TTL

\* the last operation was a poll of one of the two endpoints that got as far as
\* the store, for id k
EndpointPolled(k) == last.op \in {"status", "get-result"} /\ last.key = k

\* C15: every polling endpoint answers a poll with a valid id by 200 with
\* status pending when the store has no unexpired entry for the id and by 200
\* with status completed and the entry when it has one; never by an error.
C15_PendingOrCompleted ==
    \A k \in Ids :
        EndpointPolled(k)
            => /\ last.code = 200
               /\ \/ last.result = null /\ last.reply = "pending"
                  \/ last.result # null /\ last.reply = "completed"

\* C16 as claimed: whenever an entry leaves the store, its age exceeds the TTL.
C16_OnlyExpiryRemoves ==
    [][\A k \in Ids :
          (resultStore[k] # null /\ resultStore'[k] = null)
              => now - resultStore[k].receivedAt > RESULT_TTL]_vars

\* C16: whenever an entry leaves the store, either its age exceeds the TTL (a
\* read or the timer removed it) or the step is clearResult for its id, which
\* deletes the entry whatever its age.
C16_ExpiryOrClearRemoves ==
    [][\A k \in Ids :
          (resultStore[k] # null /\ resultStore'[k] = null)
              => \/ now - resultStore[k].receivedAt > RESULT_TTL
                 \/ last'.op = "clearResult" /\ last'.query = Str(k)]_vars

C16_Witness ==
    \E k \in Ids :
        /\ last.op = "clearResult" /\ last.query = Str(k) /\ last.reply = "true"
        /\ written[k] # null /\ Age(k) <= RESULT_TTL
        /\ resultStore[k] = null

\* C17: the state machine of one id as the status poller shows it. A poll
\* reports completed exactly when a callback for the id was accepted at most
\* TTL before the poll, and then with the entry of the latest accepted
\* callback; so a completed id is reported pending again only after the TTL of
\* its latest write has passed, and an overwrite keeps it completed with the
\* new data.
C17_ObservedStates ==
    \A k \in Ids :
        (last.op = "status" /\ last.key = k)
            => /\ last.reply \in {"pending", "completed"}
               /\ last.reply = "completed"
                     <=> (written[k] # null /\ Age(k) <= RESULT_TTL)
               /\ last.reply = "completed" => last.result = written[k]
               /\ last.reply = "pending" => last.result = null

C17_Witness ==
    \E k \in Ids :
        /\ last.op = "status" /\ last.key = k
        /\ last.reply = "pending"
        /\ overwrote[k] # null
        /\ written[k].status = "error"
        /\ Age(k) > RESULT_TTL

\* C18: atomicity per key. No handler awaits between its reads and writes of
\* the store, so each runs as one step. The store holds for k nothing but the
\* whole entry of the latest accepted callback, and a poll for k that meets an
\* overwrite returns one whole entry (the earlier one when it runs first, the
\* later one when it runs second), and not null while both are unexpired.
C18_AtomicPerKey ==
    /\ [](\A k \in Ids : resultStore[k] \in {null, written[k]})
    /\ [][\A k \in Ids :
             Polled(k)' =>
                /\ last'.result \in {null, resultStore[k]}
                /\ (/\ overwrote[k] # null
                    /\ now - overwrote[k].receivedAt <= RESULT_TTL
                    /\ now - written[k].receivedAt <= RESULT_TTL)
                      => last'.result = written[k]]_vars

C18_Witness ==
    \E k \in Ids :
        /\ Polled(k)
        /\ overwrote[k] # null
        /\ overwrote[k].status # written[k].status
        /\ now - overwrote[k].receivedAt <= RESULT_TTL
        /\ last.result = written[k]

\* C19: on every endpoint an OPTIONS request is answered 200 and a request
\* with a method other than the endpoint's own (POST for the callback, GET for
\* the pollers) is answered 405; neither changes the store, an expired entry
\* included.
C19_MethodHandling ==
    [][(last'.op \in {"callback", "status", "get-result"}
        /\ last'.req.method # (IF last'.op = "callback" THEN "POST" ELSE "GET"))
          => /\ last'.code = (IF last'.req.method = "OPTIONS" THEN 200 ELSE 405)
             /\ last'.key = ""
             /\ resultStore' = resultStore]_vars

C19_Witness ==
    /\ last.op = "status"
    /\ last.req.method = "POST"
    /\ last.code = 405
    /\ \E k \in Ids : resultStore[k] # null /\ now - resultStore[k].receivedAt > RESULT_TTL

\* C20: with the interval timer firing again and again, an entry whose TTL has
\* elapsed does not stay in the store, whether or not its id is polled, and
\* once callbacks have stopped arriving the store becomes empty for good.
C20_SweepEmptiesStore ==
    /\ \A k \in Ids :
          (resultStore[k] # null /\ now - resultStore[k].receivedAt > RESULT_TTL)
             ~> (resultStore[k] = null)
    /\ <>[](\A k \in Ids : resultStore[k] = null)

C20_Witness ==
    /\ last.op = "sweep"
    /\ last.evicted
    /\ \A k \in Ids : written[k] # null /\ Age(k) > RESULT_TTL /\ resultStore[k] = null

\* C21: a POST with a valid callbackId, status "error" and none of the three
\* estimate fields is answered 200, and the entry it stores has status "error"
\* and no totalEstimate.
C21_ErrorWithoutEstimate ==
    (/\ Posted
     /\ callbackIdOk(last.req.callbackId)
     /\ last.req.status = Str("error")
     /\ last.req.totalEstimate = Undefined
     /\ last.req.totalEstimateDollar = Undefined
     /\ last.req.total_estimate_ = Undefined)
        => /\ last.code = 200
           /\ resultStore[last.req.callbackId.s] # null
           /\ resultStore[last.req.callbackId.s].status = "error"
           /\ resultStore[last.req.callbackId.s].totalEstimate = Undefined
           /\ resultStore[last.req.callbackId.s].receivedAt = now

C21_Witness ==
    /\ Accepted
    /\ last.req.status = Str("error")
    /\ FirstPresent(last.req) = Undefined
    /\ last.req.message = Str("done")
    /\ resultStore[last.req.callbackId.s].status = "error"
    /\ resultStore[last.req.callbackId.s].totalEstimate = Undefined

\* C22: a callback that is rejected (400, 405 or 500) changes nothing in the
\* store; an unexpired entry of the id it names keeps its fields, its
\* receivedAt included.
C22_RejectedKeepsEntry ==
    [][(last'.op = "callback" /\ last'.code \in {400, 405, 500})
          => resultStore' = resultStore]_vars

C22_Witness ==
    \E k \in Ids :
        /\ last.op = "callback" /\ last.code = 400
        /\ last.req.callbackId = Str(k)
        /\ resultStore[k] # null
        /\ resultStore[k].receivedAt < now
        /\ now - resultStore[k].receivedAt <= RESULT_TTL

\* C23: the cleanup timer is unobservable to pollers. lazyStore is the store
\* of the same sequence of callbacks, polls and clock advances with the timer
\* never firing. Every poll answers what getResult on lazyStore answers, with
\* the same status code; the two stores differ only where the timer removed an
\* entry that a read would take for expired.
C23_SweepUnobservable ==
    /\ [](\A k \in Ids :
             resultStore[k] # lazyStore[k]
                => /\ resultStore[k] = null
                   /\ now - lazyStore[k].receivedAt > RESULT_TTL)
    /\ [][\A k \in Ids :
             EndpointPolled(k)'
                => /\ last'.result = getResultReturn(lazyStore, k, now)
                   /\ last'.op = "status"
                         => /\ last'.code = statusCode(getResultReturn(lazyStore, k, now))
                            /\ last'.reply = statusReply(getResultReturn(lazyStore, k, now))
                   /\ last'.op = "get-result"
                         => /\ last'.code = getResultCode(getResultReturn(lazyStore, k, now))
                            /\ last'.reply = getResultReply(getResultReturn(lazyStore, k, now))]_vars

C23_Witness ==
    \E k \in Ids :
        /\ EndpointPolled(k)
        /\ last.result = null /\ ~last.evicted
        /\ written[k] # null /\ Age(k) > RESULT_TTL
        /\ \E j \in Ids : lazyStore[j] # null /\ resultStore[j] = null

\* C24: key isolation. An accepted callback for id k, a getResult(k), lazy
\* eviction of k included, and a clearResult(k) leave the entry of every other
\* id as it is, an expired one too.
C24_KeyIsolation ==
    [][\A k \in Ids :
          (\/ AcceptedFor(k)'
           \/ last'.op = "getResult" /\ last'.key = k
           \/ last'.op = "clearResult" /\ last'.query = Str(k))
              => \A j \in Ids \ {k} : resultStore'[j] = resultStore[j]]_vars

C24_Witness ==
    \E k \in Ids :
        /\ last.op = "getResult" /\ last.key = k /\ last.evicted
        /\ resultStore[k] = null
        /\ \E j \in Ids \ {k} :
              resultStore[j] # null /\ now - resultStore[j].receivedAt > RESULT_TTL

\* C25: reads are pure for live entries. A getResult(k) on an id that has no
\* entry or an unexpired one leaves the whole store unchanged, so it neither
\* creates an entry nor refreshes receivedAt; and a poll that follows a poll of
\* the same endpoint and id at the same clock value gets the same answer.
C25_ReadsPure ==
    [][\A k \in Ids :
          /\ (/\ Polled(k)'
              /\ resultStore[k] # null => now - resultStore[k].receivedAt <= RESULT_TTL)
                => resultStore' = resultStore
          /\ (Polled(k) /\ Polled(k)' /\ last'.op = last.op /\ now' = now)
                => /\ last'.result = last.result
                   /\ last'.code = last.code
                   /\ last'.reply = last.reply]_vars

C25_Witness ==
    \E k \in Ids :
        /\ last.op = "status" /\ last.key = k
        /\ last.result # null
        /\ Age(k) = RESULT_TTL
        /\ resultStore[k] = written[k]
        /\ \E j \in Ids \ {k} : resultStore[j] = null /\ written[j] = null

\* C26: the range check of the estimate is advisory. A POST with a valid
\* callbackId and a status other than "error" whose estimate is a number below
\* 0 or above 10,000,000 is answered 200 and stored with that number.
C26_RangeAdvisory ==
    (/\ Posted
     /\ callbackIdOk(last.req.callbackId)
     /\ last.req.status # Str("error")
     /\ typeof(FirstPresent(last.req)) = "number"
     /\ (FirstPresent(last.req).n < 0 \/ FirstPresent(last.req).n > 10000000))
        => /\ last.code = 200
           /\ resultStore[last.req.callbackId.s] # null
           /\ resultStore[last.req.callbackId.s].status = "success"
           /\ resultStore[last.req.callbackId.s].totalEstimate = FirstPresent(last.req)

C26_Witness ==
    /\ Accepted
    /\ last.req.totalEstimate = Num(10000001)
    /\ resultStore[last.req.callbackId.s].status = "success"
    /\ resultStore[last.req.callbackId.s].totalEstimate = Num(10000001)

\* C27: the callback receivers agree. For every request api/estmate-callback.ts,
\* unnamed/part_001 and, while the cache answers, the cache-backed
\* unnamed/part_000 return the status code api/estimate-callback.ts returns
\* (a failing kv.set turns a 200 into 500 and nothing else); and on 200 each
\* writes under the posted id an entry with the same status and totalEstimate
\* as the entry in resultStore, with a lifetime of 5 minutes.
C27_VariantsAgree ==
    last.op = "callback" =>
        /\ estmateHandlerCode(last.req) = last.code
        /\ part001HandlerCode(last.req) = last.code
        /\ kvHandlerCode(last.req, TRUE) = last.code
        /\ kvHandlerCode(last.req, FALSE) = (IF Accepted THEN 500 ELSE last.code)
        /\ Accepted =>
              LET id == last.req.callbackId.s
              IN  /\ estmateResult(last.req, now).key = id
                  /\ part001Result(last.req, now).key = id
                  /\ kvSet(last.req, now).key = <<"estimate:", id>>
                  /\ \A w \in {estmateResult(last.req, now).value,
                               part001Result(last.req, now).value,
                               kvSet(last.req, now).value} :
                        /\ w.status = resultStore[id].status
                        /\ w.totalEstimate = resultStore[id].totalEstimate
                  /\ \A w \in {estmateResult(last.req, now),
                               part001Result(last.req, now),
                               kvSet(last.req, now)} :
                        w.lifetime = 5 * 60 * 1000 /\ w.lifetime = RESULT_TTL

C27_Witness ==
    /\ Accepted
    /\ last.req.status = Str("pending")
    /\ last.req.totalEstimate = Undefined
    /\ last.req.totalEstimateDollar = Num(2200)
    /\ kvHandlerCode(last.req, TRUE) = 200
    /\ kvSet(last.req, now).value.status = "success"
    /\ kvSet(last.req, now).value.totalEstimate = Num(2200)
    /\ resultStore[last.req.callbackId.s].totalEstimate = Num(2200)

====
